---- MODULE Spec2Model ----
(***************************************************************************)
(* A model of emldump.py: the cut expression language (ParseCutTerm,       *)
(* ParseCutArgument, CutData), the loading of decoder plugins              *)
(* (LoadDecoders) and the run of Main / EMLDump in its three modes         *)
(* (listing, YARA scan with decoders, selection of one part).              *)
(*                                                                         *)
(* Texts are sequences of one-character strings, byte buffers are          *)
(* sequences of integers 0..255.  A Python tuple whose fields change type  *)
(* at run time (type, value, remainder) is a record with one field per     *)
(* dynamic type: num for an integer value, bytes for a string value.       *)
(***************************************************************************)
EXTENDS Integers, Sequences, FiniteSets, TLC

\* -------------------------------------------------------------- bounds
\* Longest byte buffer handed to CutData.
MaxLen == 3
\* Largest single-digit position or length written in a cut expression.
MaxPos == 4
\* A two-digit position (decimal "10", hexadecimal "0xa").
BigPos == 10
\* Longest needle written in a cut expression.
MaxNeedle == 2
\* Most parts the MIME walk of a message yields.
MaxParts == 3
\* Most entries of the -D specifier list.
MaxPlugins == 2
\* Keys a brute-force decoder of the model tries (the shipped ones try 255).
MaxKeys == 2
\* Decode() calls the model follows on one instance; an instance that is
\* still available after that many is followed no further.
MaxCalls == 3

\* ----------------------------------------------------- program constants
CUTTERM_NOTHING == 0
CUTTERM_POSITION == 1
CUTTERM_FIND == 2
CUTTERM_LENGTH == 3
\* Python's None where the code compares it with a term type or a number.
None == -1

\* ------------------------------------------------------------ characters
DecDigits == {"0", "1", "2", "3", "4", "5", "6", "7", "8", "9"}
HexDigits == DecDigits \cup {"a", "b", "c", "d", "e", "f", "A", "B", "C", "D", "E", "F"}
Whitespace == {" ", "\n"}

\* int(c, 16) of one hexadecimal digit.
HexVal(c) ==
  CASE c = "0" -> 0 [] c = "1" -> 1 [] c = "2" -> 2 [] c = "3" -> 3
    [] c = "4" -> 4 [] c = "5" -> 5 [] c = "6" -> 6 [] c = "7" -> 7
    [] c = "8" -> 8 [] c = "9" -> 9
    [] c \in {"a", "A"} -> 10 [] c \in {"b", "B"} -> 11
    [] c \in {"c", "C"} -> 12 [] c \in {"d", "D"} -> 13
    [] c \in {"e", "E"} -> 14 [] c \in {"f", "F"} -> 15

\* ord(c) of the characters a cut expression of the model can hold.
Ord(c) ==
  CASE c = "\n" -> 10 [] c = " " -> 32 [] c = "'" -> 39 [] c = ":" -> 58
    [] c = "0" -> 48 [] c = "1" -> 49 [] c = "2" -> 50 [] c = "3" -> 51
    [] c = "4" -> 52 [] c = "5" -> 53 [] c = "6" -> 54 [] c = "7" -> 55
    [] c = "8" -> 56 [] c = "9" -> 57
    [] c = "A" -> 65 [] c = "B" -> 66 [] c = "C" -> 67 [] c = "D" -> 68
    [] c = "E" -> 69 [] c = "F" -> 70 [] c = "M" -> 77 [] c = "X" -> 88
    [] c = "Z" -> 90 [] c = "[" -> 91 [] c = "]" -> 93
    [] c = "a" -> 97 [] c = "b" -> 98 [] c = "c" -> 99 [] c = "d" -> 100
    [] c = "e" -> 101 [] c = "f" -> 102 [] c = "l" -> 108 [] c = "x" -> 120
    [] c = "/" -> 47 [] c = "y" -> 121

Max(S) == CHOOSE m \in S : \A n \in S : n <= m
Min(S) == CHOOSE m \in S : \A n \in S : m <= n

\* argument[n:]
Drop(s, n) == SubSeq(s, n + 1, Len(s))

\* How many characters of s, from index from on, lie in class cls: the
\* length a greedy cls+ takes.
Span(s, from, cls) ==
  Max({j \in from..(Len(s) + 1) : \A k \in from..(j - 1) : s[k] \in cls}) - from

RECURSIVE IntHex(_)
\* int(s, 16)
IntHex(s) ==
  IF s = <<>> THEN 0
  ELSE 16 * IntHex(SubSeq(s, 1, Len(s) - 1)) + HexVal(s[Len(s)])

RECURSIVE IntDec(_)
\* int(s)
IntDec(s) ==
  IF s = <<>> THEN 0
  ELSE 10 * IntDec(SubSeq(s, 1, Len(s) - 1)) + HexVal(s[Len(s)])

\* binascii.a2b_hex(s) of an even number of hexadecimal digits.
A2bHex(s) ==
  [i \in 1..(Len(s) \div 2) |-> 16 * HexVal(s[2 * i - 1]) + HexVal(s[2 * i])]

\* The bytes of a Python 2 str.
OrdSeq(s) == [i \in 1..Len(s) |-> Ord(s[i])]

\* argument.strip()
Strip(s) ==
  LET keep == {i \in 1..Len(s) : s[i] \notin Whitespace}
  IN IF keep = {} THEN <<>> ELSE SubSeq(s, Min(keep), Max(keep))

\* ---------------------------------------------------------- ParseCutTerm
\* Length of re.match(r'0x([0-9a-f]+)', a, re.I).group(0), 0 for no match.
MatchHexPos(a) ==
  IF Len(a) >= 3 /\ a[1] = "0" /\ a[2] \in {"x", "X"} /\ Span(a, 3, HexDigits) >= 1
  THEN 2 + Span(a, 3, HexDigits)
  ELSE 0

\* Length of re.match(r'(\d+)', a).group(0), 0 for no match.
MatchDec(a) == Span(a, 1, DecDigits)

\* Length of re.match(r'\[([0-9a-f]+)\]', a, re.I).group(0), 0 for no match.
MatchHexNeedle(a) ==
  IF Len(a) >= 3 /\ a[1] = "["
  THEN LET n == Span(a, 2, HexDigits)
       IN IF n >= 1 /\ n + 2 <= Len(a) /\ a[n + 2] = "]" THEN n + 2 ELSE 0
  ELSE 0

\* Length of re.match(r"\[\'(.+)\'\]", a).group(0), 0 for no match: the
\* greedy .+ runs to the last '] it can reach without crossing a newline.
MatchQuoted(a) ==
  LET ends == {j \in 4..(Len(a) - 1) :
                 /\ a[j] = "'"
                 /\ a[j + 1] = "]"
                 /\ \A k \in 3..(j - 1) : a[k] # "\n"}
  IN IF Len(a) >= 5 /\ a[1] = "[" /\ a[2] = "'" /\ ends # {}
     THEN Max(ends) + 1
     ELSE 0

\* The tuple ParseCutTerm returns, or the exception it leaves with.
CutTerm(type, num, bytes, remainder) ==
  [raised |-> FALSE, type |-> type, num |-> num, bytes |-> bytes, remainder |-> remainder]

CutTermRaised(argument) ==
  [raised |-> TRUE, type |-> None, num |-> None, bytes |-> <<>>, remainder |-> argument]

\* The branch of ParseCutTerm for a bracketed hexadecimal needle of m
\* characters: a bare raise for an odd number of digits.
HexNeedleTerm(argument, m) ==
  IF (m - 2) % 2 = 1
  THEN CutTermRaised(argument)
  ELSE CutTerm(CUTTERM_FIND, None, A2bHex(SubSeq(argument, 2, m - 1)), Drop(argument, m))

\* The branch of ParseCutTerm for a bracketed, quoted needle of m characters.
QuotedTerm(argument, m) ==
  CutTerm(CUTTERM_FIND, None, OrdSeq(SubSeq(argument, 3, m - 2)), Drop(argument, m))

ParseCutTerm(argument) ==
  IF argument = <<>> THEN CutTerm(CUTTERM_NOTHING, None, <<>>, <<>>)
  ELSE IF MatchHexPos(argument) > 0
  THEN CutTerm(CUTTERM_POSITION, IntHex(SubSeq(argument, 3, MatchHexPos(argument))),
               <<>>, Drop(argument, MatchHexPos(argument)))
  ELSE IF MatchDec(argument) > 0
  THEN CutTerm(CUTTERM_POSITION, IntDec(SubSeq(argument, 1, MatchDec(argument))),
               <<>>, Drop(argument, MatchDec(argument)))
  ELSE IF MatchHexNeedle(argument) > 0
  THEN HexNeedleTerm(argument, MatchHexNeedle(argument))
  ELSE IF MatchQuoted(argument) > 0
  THEN QuotedTerm(argument, MatchQuoted(argument))
  ELSE CutTerm(None, None, <<>>, argument)

\* ------------------------------------------------------ ParseCutArgument
\* The 4-tuple (typeLeft, valueLeft, typeRight, valueRight).
CutExpression(typeLeft, numLeft, bytesLeft, typeRight, numRight, bytesRight) ==
  [raised |-> FALSE,
   typeLeft |-> typeLeft, numLeft |-> numLeft, bytesLeft |-> bytesLeft,
   typeRight |-> typeRight, numRight |-> numRight, bytesRight |-> bytesRight]

\* return None, None, None, None
Invalid == CutExpression(None, None, <<>>, None, None, <<>>)

\* The exception of ParseCutTerm leaving ParseCutArgument.
ParseRaised == [Invalid EXCEPT !.raised = TRUE]

StartsWithColon(s) == Len(s) >= 1 /\ s[1] = ":"

\* The second half of ParseCutArgument: the right term of remainder.
ParseRight(typeLeft, numLeft, bytesLeft, remainder) ==
  LET t == ParseCutTerm(remainder)
  IN IF t.raised THEN ParseRaised
     ELSE IF t.type = CUTTERM_POSITION /\ t.remainder = <<"l">>
     THEN CutExpression(typeLeft, numLeft, bytesLeft, CUTTERM_LENGTH, t.num, <<>>)
     ELSE IF t.type = None \/ t.remainder # <<>>
     THEN Invalid
     ELSE CutExpression(typeLeft, numLeft, bytesLeft, t.type, t.num, t.bytes)

ParseCutArgument(argument) ==
  LET t == ParseCutTerm(Strip(argument))
  IN IF t.raised THEN ParseRaised
     ELSE IF t.type = CUTTERM_NOTHING
     THEN CutExpression(CUTTERM_NOTHING, None, <<>>, CUTTERM_NOTHING, None, <<>>)
     ELSE IF t.type = None
     THEN IF StartsWithColon(t.remainder)
          THEN ParseRight(CUTTERM_NOTHING, None, <<>>, Drop(t.remainder, 1))
          ELSE Invalid
     ELSE IF StartsWithColon(t.remainder)
          THEN ParseRight(t.type, t.num, t.bytes, Drop(t.remainder, 1))
          ELSE Invalid

\* --------------------------------------------------------------- CutData
\* stream.find(needle): the 0-based offset of the first occurrence, or -1.
Find(stream, needle) ==
  LET at == {i \in 0..(Len(stream) - Len(needle)) :
               \A k \in 1..Len(needle) : stream[i + k] = needle[k]}
  IN IF at = {} THEN -1 ELSE Min(at)

\* stream[positionBegin:positionEnd] for indices that are not negative.
Slice(stream, positionBegin, positionEnd) ==
  SubSeq(stream, positionBegin + 1, IF positionEnd < Len(stream) THEN positionEnd ELSE Len(stream))

\* PositionBegin with the check for a needle that is not found left out: the
\* cut then starts at byte 0.
PositionBeginUnchecked(stream, c) ==
  IF c.typeLeft = CUTTERM_NOTHING THEN 0
  ELSE IF c.typeLeft = CUTTERM_POSITION THEN c.numLeft
  ELSE IF Find(stream, c.bytesLeft) = -1 THEN 0
  ELSE Find(stream, c.bytesLeft)

\* positionBegin, or -1 where CutData returns '' for a left needle not found.
PositionBegin(stream, c) ==
  IF c.typeLeft = CUTTERM_NOTHING THEN 0
  ELSE IF c.typeLeft = CUTTERM_POSITION THEN c.numLeft
  ELSE Find(stream, c.bytesLeft)

\* stream.find(needle, start)
FindFrom(stream, needle, start) ==
  LET at == {i \in start..(Len(stream) - Len(needle)) :
               \A k \in 1..Len(needle) : stream[i + k] = needle[k]}
  IN IF at = {} THEN -1 ELSE Min(at)

\* PositionEnd with the search for the right needle started at positionBegin.
PositionEndAnchored(stream, c, positionBegin) ==
  IF c.typeRight = CUTTERM_NOTHING THEN Len(stream)
  ELSE IF c.typeRight = CUTTERM_POSITION THEN c.numRight + 1
  ELSE IF c.typeRight = CUTTERM_LENGTH THEN positionBegin + c.numRight
  ELSE IF FindFrom(stream, c.bytesRight, positionBegin) = -1 THEN -1
  ELSE FindFrom(stream, c.bytesRight, positionBegin) + Len(c.bytesRight)

\* PositionEnd with a right position taken as the exclusive end.
PositionEndExclusive(stream, c, positionBegin) ==
  IF c.typeRight = CUTTERM_NOTHING THEN Len(stream)
  ELSE IF c.typeRight = CUTTERM_POSITION THEN c.numRight
  ELSE IF c.typeRight = CUTTERM_LENGTH THEN positionBegin + c.numRight
  ELSE IF Find(stream, c.bytesRight) = -1 THEN -1
  ELSE Find(stream, c.bytesRight) + Len(c.bytesRight)

\* positionEnd, or -1 where CutData returns '' for a right needle not found.
PositionEnd(stream, c, positionBegin) ==
  IF c.typeRight = CUTTERM_NOTHING THEN Len(stream)
  ELSE IF c.typeRight = CUTTERM_POSITION THEN c.numRight + 1
  ELSE IF c.typeRight = CUTTERM_LENGTH THEN positionBegin + c.numRight
  ELSE IF Find(stream, c.bytesRight) = -1 THEN -1
  ELSE Find(stream, c.bytesRight) + Len(c.bytesRight)

\* What CutData returns: the bytes, or the exception it leaves with.
CutData(stream, cutArgument) ==
  IF cutArgument = <<>> THEN [raised |-> FALSE, data |-> stream]
  ELSE LET c == ParseCutArgument(cutArgument)
       IN IF c.raised THEN [raised |-> TRUE, data |-> <<>>]
          ELSE IF c.typeLeft = None THEN [raised |-> FALSE, data |-> stream]
          ELSE LET positionBegin == PositionBegin(stream, c)
                   positionEnd == PositionEnd(stream, c, positionBegin)
               IN IF positionBegin = -1 \/ positionEnd = -1
                  THEN [raised |-> FALSE, data |-> <<>>]
                  ELSE [raised |-> FALSE, data |-> Slice(stream, positionBegin, positionEnd)]

\* ------------------------------------------------------------- the state
VARIABLES
  cutTerms,     \* the two terms options.cut was written from ("raw": free text)
  cutArgument,  \* options.cut, the text of the cut expression
  stream,       \* the buffer handed to CutData
  parsed,       \* what ParseCutArgument(options.cut) returned
  cutOut,       \* what CutData(stream, options.cut) returned
  cutpc,        \* the position of the caller of ParseCutArgument and CutData
  options,      \* the parsed command line, but for options.cut
  oEML,         \* the parts oEML.walk() yields, in order
  pc,           \* the position of the run in Main and EMLDump
  exception,    \* the exception that ended the run, "" for none
  inputRead,    \* the message was read from the file or stdin
  decoders,     \* the global list AddDecoder appends to
  loadList,     \* the specifiers LoadDecoders has still to load
  counter,      \* the 1-based index of the part the walk is at
  oDecoders,    \* the decoder instances of the part that is scanned
  dIdx,         \* the place in oDecoders of the instance that is driven
  matched,      \* the buffers handed to rules.match, in order
  stdout        \* what the run printed, in order

cutVars == <<cutTerms, cutArgument, stream, parsed, cutOut, cutpc>>
runVars == <<options, oEML, pc, exception, inputRead, decoders, loadList, counter,
             oDecoders, dIdx, matched, stdout>>
vars == <<cutTerms, cutArgument, stream, parsed, cutOut, cutpc,
          options, oEML, pc, exception, inputRead, decoders, loadList, counter,
          oDecoders, dIdx, matched, stdout>>

\* ------------------------------------------------- cut expressions to try
\* The byte values of buffers and needles: 'A' and 'M' (0x41, 0x4d).
Bytes == {65, 77}

\* chr(b)
Chr(b) == CHOOSE c \in {"A", "M"} : Ord(c) = b

SeqsUpTo(S, n) == UNION {[1..k -> S] : k \in 0..n}

Buffers == SeqsUpTo(Bytes, MaxLen)
Needles == SeqsUpTo(Bytes, MaxNeedle) \ {<<>>}
Positions == (0..MaxPos) \cup {BigPos}

DigitChars == <<"0", "1", "2", "3", "4", "5", "6", "7", "8", "9", "a", "b", "c", "d", "e", "f">>

RECURSIVE NumText(_, _)
\* The digits of n in the given base, as '%d' % n and '%x' % n write them.
NumText(n, base) ==
  IF n < base THEN <<DigitChars[n + 1]>>
  ELSE NumText(n \div base, base) \o <<DigitChars[(n % base) + 1]>>

RECURSIVE HexText(_)
\* binascii.b2a_hex(bytes)
HexText(bytes) ==
  IF bytes = <<>> THEN <<>>
  ELSE <<DigitChars[(bytes[1] \div 16) + 1], DigitChars[(bytes[1] % 16) + 1]>> \o HexText(Tail(bytes))

\* A term as the user means it: its form, and its number or its needle.
TermOf(form, num, bytes) == [form |-> form, num |-> num, bytes |-> bytes]

NothingTerm == TermOf("nothing", None, <<>>)
RawTerm == TermOf("raw", None, <<>>)

LeftTerms ==
  {NothingTerm}
    \cup {TermOf(f, p, <<>>) : f \in {"dec", "hex"}, p \in Positions}
    \cup {TermOf(f, None, n) : f \in {"quoted", "hexneedle"}, n \in Needles}

RightTerms ==
  LeftTerms \cup {TermOf(f, p, <<>>) : f \in {"declen", "hexlen"}, p \in Positions}

\* The text of a term, as the manual tells the user to write it.
TermText(t) ==
  CASE t.form = "nothing" -> <<>>
    [] t.form = "dec" -> NumText(t.num, 10)
    [] t.form = "hex" -> <<"0", "x">> \o NumText(t.num, 16)
    [] t.form = "declen" -> NumText(t.num, 10) \o <<"l">>
    [] t.form = "hexlen" -> <<"0", "x">> \o NumText(t.num, 16) \o <<"l">>
    [] t.form = "quoted" -> <<"[", "'">> \o [i \in 1..Len(t.bytes) |-> Chr(t.bytes[i])] \o <<"'", "]">>
    [] t.form = "hexneedle" -> <<"[">> \o HexText(t.bytes) \o <<"]">>

ExpressionText(left, right) == TermText(left) \o <<":">> \o TermText(right)

\* Texts that are no "term:term" of the forms above.
RawTexts ==
  { <<>>,
    <<"1">>,
    <<"x", ":">>,
    <<"1", ":", "2", "x">>,
    <<":", ":">>,
    <<"1", ":", "2", "l", "l">>,
    <<"0", "x", ":", "1">>,
    <<"[", "'", "A", "'", "]">>,
    <<"[", "'", "'", "]", ":">>,
    <<"[", "]", ":">>,
    <<"[", "d", "0", "c", "]", ":">>,
    <<"0", ":", "[", "a", "b", "c", "]">>,
    <<"[", "4", "D", "]", ":", "0", "X", "2">>,
    <<" ", "1", ":", "2", " ">>,
    <<"[", "'", "A", "'", "]", "l", ":">>,
    <<"[", "4", "1", "]", ":", "1", "l", "x">> }

\* ----------------------------------------------------------- the options
\* The option values optparse gives on an empty command line.
NoOptions ==
  [man |-> FALSE, select |-> <<>>, yara |-> "None", verbose |-> FALSE,
   decoders |-> <<>>, nargs |-> 1]

\* ------------------------------------------- ParseCutArgument and CutData
\* applied to every expression and buffer of the bounds
InitCut ==
  /\ \/ \E l \in LeftTerms, r \in RightTerms :
          /\ cutTerms = [left |-> l, right |-> r]
          /\ cutArgument = ExpressionText(l, r)
     \/ /\ cutTerms = [left |-> RawTerm, right |-> RawTerm]
        /\ cutArgument \in RawTexts
  /\ stream \in Buffers
  /\ parsed = Invalid
  /\ cutOut = [raised |-> FALSE, data |-> <<>>]
  /\ cutpc = "start"
  /\ options = NoOptions
  /\ oEML = <<>>
  /\ pc = "done"
  /\ exception = ""
  /\ inputRead = FALSE
  /\ decoders = <<>>
  /\ loadList = <<>>
  /\ counter = 1
  /\ oDecoders = <<>>
  /\ dIdx = 1
  /\ matched = <<>>
  /\ stdout = <<>>

\* The caller parses the expression.
DoParse ==
  /\ cutpc = "start"
  /\ parsed' = ParseCutArgument(cutArgument)
  /\ cutpc' = "parsed"
  /\ UNCHANGED <<cutTerms, cutArgument, stream, cutOut>>
  /\ UNCHANGED runVars

\* The caller cuts the buffer.
DoCut ==
  /\ cutpc = "parsed"
  /\ cutOut' = CutData(stream, cutArgument)
  /\ cutpc' = "cut"
  /\ UNCHANGED <<cutTerms, cutArgument, stream, parsed>>
  /\ UNCHANGED runVars

NextCut == DoParse \/ DoCut

SpecCut == InitCut /\ [][NextCut]_vars

\* ----------------------------------------------------------- the message
MultipartMixed == <<"m", "u", "l", "t", "i", "p", "a", "r", "t", "/", "m", "i", "x", "e", "d">>
TextPlain == <<"t", "e", "x", "t", "/", "p", "l", "a", "i", "n">>
OddType == <<"3", "x", "/", "y">>

\* A part the walk yields: get_content_type(), is_multipart() and
\* get_payload(decode=True), which is None exactly for a multipart.
Part(contentType, isMultipart, payload) ==
  [contentType |-> contentType, isMultipart |-> isMultipart, payload |-> payload]

PartKinds ==
  { Part(MultipartMixed, TRUE, <<>>),
    Part(TextPlain, FALSE, <<76, 77>>),
    Part(OddType, FALSE, <<76>>) }

\* oEML.walk(): the message itself first, its subparts after it when it is a
\* multipart.
Messages ==
  {m \in SeqsUpTo(PartKinds, MaxParts) : Len(m) >= 1 /\ (Len(m) > 1 => m[1].isMultipart)}

\* ---------------------------------------------------- the decoder plugins
\* cIdentity, and the classes the plugin files of the model register.
IdentityClass == "cIdentity"
PluginNames == {"decoder_add1", "decoder_rev", "decoder_missing"}
\* The plugin files of the scan runs: decoder_loop registers a class whose
\* Available() is true whatever was decoded.
ScanPluginNames == {"decoder_add1", "decoder_rev", "decoder_loop"}
AtNames == {"@decoders.txt", "@unreadable"}

\* File2Strings(filename): the lines of an at-file, or unreadable.
AtFileReadable(specifier) == specifier = "@decoders.txt"
AtFileLines(specifier) == <<"decoder_rev", "decoder_add1">>

\* ProcessAt(argument) for an argument it does not raise for.
ProcessAt(specifier) ==
  IF specifier \in AtNames THEN AtFileLines(specifier) ELSE <<specifier>>

RECURSIVE Flatten(_)
\* sum(map(ProcessAt, decoders.split(',')), [])
Flatten(specifiers) ==
  IF specifiers = <<>> THEN <<>>
  ELSE ProcessAt(Head(specifiers)) \o Flatten(Tail(specifiers))

\* exec open(decoder) succeeds: the plugin file exists and runs.
PluginLoads(decoder) == decoder # "decoder_missing"

\* cDecoder(data, options) raises: decoder_rev wants two bytes at least.
ConstructorRaises(cDecoder, data) == cDecoder = "decoder_rev" /\ Len(data) < 2

\* A decoder instance: its class, its input and the Decode() calls made.
Instance(cDecoder, data) == [class |-> cDecoder, data |-> data, n |-> 0]

\* Available(), Decode() and Name() of the instances of the plugin classes:
\* decoder_add1 adds each key in turn to every byte, decoder_rev gives the
\* bytes in reverse order, once, decoder_loop gives the bytes as they are,
\* again and again.
PluginAvailable(oDecoder) ==
  CASE oDecoder.class = "decoder_add1" -> oDecoder.n < MaxKeys
    [] oDecoder.class = "decoder_rev" -> oDecoder.n = 0
    [] oDecoder.class = "decoder_loop" -> TRUE

PluginDecode(oDecoder) ==
  CASE oDecoder.class = "decoder_add1" ->
         [i \in 1..Len(oDecoder.data) |-> (oDecoder.data[i] + oDecoder.n + 1) % 256]
    [] oDecoder.class = "decoder_rev" ->
         [i \in 1..Len(oDecoder.data) |-> oDecoder.data[Len(oDecoder.data) + 1 - i]]
    [] oDecoder.class = "decoder_loop" -> oDecoder.data

PluginName(oDecoder) ==
  CASE oDecoder.class = "decoder_add1" ->
         IF oDecoder.n = 1 THEN "ADD 1 byte key 0x01" ELSE "ADD 1 byte key 0x.."
    [] oDecoder.class = "decoder_rev" -> "reverse"
    [] oDecoder.class = "decoder_loop" -> "loop"

\* oDecoder.Available(): of cIdentity, true until Decode() was called.
Available(oDecoder) ==
  IF oDecoder.class = IdentityClass THEN oDecoder.n = 0 ELSE PluginAvailable(oDecoder)

\* What oDecoder.Decode() returns: of cIdentity, the stream itself.
Decode(oDecoder) ==
  IF oDecoder.class = IdentityClass THEN oDecoder.data ELSE PluginDecode(oDecoder)

\* oDecoder.Name() after the Decode() call that made n what it is.
Name(oDecoder) ==
  IF oDecoder.class = IdentityClass THEN "" ELSE PluginName(oDecoder)

\* rules.match(data=buffer): one rule, which matches a buffer that holds 'M'.
RulesMatch(buffer) == IF \E i \in 1..Len(buffer) : buffer[i] = 77 THEN <<"Contains_M">> ELSE <<>>

\* ---------------------------------------------------------- IsNumeric, int
\* re.match('^[0-9]+', str) is not None
IsNumeric(str) == Span(str, 1, DecDigits) >= 1

\* int(str) does not raise ValueError.
IntParses(str) == Strip(str) # <<>> /\ \A i \in 1..Len(Strip(str)) : Strip(str)[i] \in DecDigits

\* --------------------------------------------------------- the run's input
SelectTokens == {<<>>, <<"1">>, <<"2">>, TextPlain, OddType}

\* Cut expressions of the runs: none, two valid ones, one that is no
\* expression, one with an odd number of hexadecimal digits.
RunCuts ==
  { <<>>,
    <<"1", ":">>,
    <<"[", "'", "M", "'", "]", ":", "1", "l">>,
    <<"x">>,
    <<"[", "d", "0", "c", "]", ":">> }

SpecifierLists ==
  SeqsUpTo(PluginNames, MaxPlugins) \cup {<<a>> : a \in AtNames}

\* The command lines of the model.  A run that ends in Main, and a run that
\* selects or lists, is not multiplied by every specifier list.
CommandLines ==
  {o \in [man : BOOLEAN, select : SelectTokens, yara : {"None", "rules", "no module"},
          verbose : BOOLEAN, decoders : SpecifierLists, nargs : {1, 2}] :
     /\ (o.man \/ o.nargs = 2) =>
          o.select = <<>> /\ o.yara = "None" /\ ~o.verbose /\ o.decoders = <<>>
     /\ o.man => o.nargs = 1
     /\ (o.select # <<>> \/ o.yara # "rules") => Len(o.decoders) <= 1
     /\ o.yara = "no module" => o.decoders = <<>> /\ ~o.verbose}

Init ==
  /\ options \in CommandLines
  /\ cutArgument \in RunCuts
  /\ \/ options.select # <<>>
     \/ cutArgument \in {<<>>, <<"x">>, <<"[", "d", "0", "c", "]", ":">>}
  /\ oEML \in Messages
  /\ cutTerms = [left |-> RawTerm, right |-> RawTerm]
  /\ stream = <<>>
  /\ parsed = Invalid
  /\ cutOut = [raised |-> FALSE, data |-> <<>>]
  /\ cutpc = "start"
  /\ pc = "Main"
  /\ exception = ""
  /\ inputRead = FALSE
  /\ decoders = <<>>
  /\ loadList = <<>>
  /\ counter = 1
  /\ oDecoders = <<>>
  /\ dIdx = 1
  /\ matched = <<>>
  /\ stdout = <<>>

\* --------------------------------------------------------------- printing
\* One thing the run prints: what it is, the part index and the text.
Line(kind, index, text) == [kind |-> kind, index |-> index, text |-> text, data |-> <<>>]
HitLine(index, rule, decoderName) == [kind |-> "hit", index |-> index, text |-> decoderName, data |-> <<>>]
DumpOf(index, data) == [kind |-> "dump", index |-> index, text |-> "", data |-> data]

\* ------------------------------------------------------------------- Main
\* options.man: the manual is printed and Main returns.
MainMan ==
  /\ pc = "Main"
  /\ options.man
  /\ stdout' = Append(stdout, Line("manual", 0, ""))
  /\ pc' = "done"
  /\ UNCHANGED <<options, oEML, exception, inputRead, decoders, loadList, counter,
                 oDecoders, dIdx, matched>>
  /\ UNCHANGED cutVars

\* The check of options.cut and of the number of arguments, up to the call
\* of EMLDump.
MainCheck ==
  /\ pc = "Main"
  /\ ~options.man
  /\ parsed' = ParseCutArgument(cutArgument)
  /\ cutpc' = "parsed"
  /\ IF parsed'.raised
     THEN pc' = "raised" /\ exception' = "ParseCutTerm" /\ stdout' = stdout
     ELSE IF parsed'.typeLeft = None
     THEN /\ pc' = "done"
          /\ stdout' = Append(stdout, Line("Error: the expression of the cut option (-c) is invalid", 0, ""))
          /\ exception' = exception
     ELSE IF options.nargs > 1
     THEN pc' = "done" /\ stdout' = Append(stdout, Line("help", 0, "")) /\ exception' = exception
     ELSE pc' = "EMLDump" /\ stdout' = stdout /\ exception' = exception
  /\ UNCHANGED <<options, oEML, inputRead, decoders, loadList, counter, oDecoders, dIdx, matched>>
  /\ UNCHANGED <<cutTerms, cutArgument, stream, cutOut>>

\* ---------------------------------------------------------------- EMLDump
\* The input is read and the global list of decoders reset.
ReadInput ==
  /\ pc = "EMLDump"
  /\ inputRead' = TRUE
  /\ decoders' = <<>>
  /\ pc' = "LoadDecoders"
  /\ UNCHANGED <<options, oEML, exception, loadList, counter, oDecoders, dIdx, matched, stdout>>
  /\ UNCHANGED cutVars

\* The verbose argument of the call LoadDecoders(options.decoders, True).
LoadDecodersVerbose == TRUE

\* LoadDecoders up to its loop: the specifier list is expanded.
LoadDecodersStart ==
  /\ pc = "LoadDecoders"
  /\ IF options.decoders = <<>>
     THEN pc' = "Yara" /\ loadList' = <<>> /\ exception' = exception
     ELSE IF \E i \in 1..Len(options.decoders) :
               options.decoders[i] \in AtNames /\ ~AtFileReadable(options.decoders[i])
     THEN pc' = "raised" /\ exception' = "ProcessAt" /\ loadList' = <<>>
     ELSE pc' = "LoadLoop" /\ loadList' = Flatten(options.decoders) /\ exception' = exception
  /\ UNCHANGED <<options, oEML, inputRead, decoders, counter, oDecoders, dIdx, matched, stdout>>
  /\ UNCHANGED cutVars

\* One turn of the loop of LoadDecoders(decoders, verbose).
LoadDecoder(verbose) ==
  /\ pc = "LoadLoop"
  /\ loadList # <<>>
  /\ loadList' = Tail(loadList)
  /\ IF PluginLoads(Head(loadList))
     THEN /\ decoders' = Append(decoders, Head(loadList))
          /\ UNCHANGED <<pc, exception, stdout>>
     ELSE /\ stdout' = Append(stdout, Line("Error loading decoder", 0, Head(loadList)))
          /\ decoders' = decoders
          /\ IF verbose
             THEN pc' = "raised" /\ exception' = "LoadDecoders"
             ELSE UNCHANGED <<pc, exception>>
  /\ UNCHANGED <<options, oEML, inputRead, counter, oDecoders, dIdx, matched>>
  /\ UNCHANGED cutVars

\* LoadDecoders returns.
LoadDecodersEnd ==
  /\ pc = "LoadLoop"
  /\ loadList = <<>>
  /\ pc' = "Yara"
  /\ UNCHANGED <<options, oEML, exception, inputRead, decoders, loadList, counter,
                 oDecoders, dIdx, matched, stdout>>
  /\ UNCHANGED cutVars

\* The check for the YARA module, the parse of the message and the choice
\* of the mode.
ChooseMode ==
  /\ pc = "Yara"
  /\ IF options.yara = "no module"
     THEN /\ stdout' = Append(stdout, Line("Error: option yara requires the YARA Python module.", 0, ""))
          /\ pc' = "done"
     ELSE /\ stdout' = stdout
          /\ pc' = IF options.select # <<>> THEN "Select"
                   ELSE IF options.yara = "None" THEN "List" ELSE "Scan"
  /\ counter' = 1
  /\ UNCHANGED <<options, oEML, exception, inputRead, decoders, loadList, oDecoders, dIdx, matched>>
  /\ UNCHANGED cutVars

\* Listing: one line for the part.
ListPart ==
  /\ pc = "List"
  /\ counter <= Len(oEML)
  /\ stdout' = Append(stdout, Line("part", counter, IF oEML[counter].isMultipart THEN "M" ELSE " "))
  /\ counter' = counter + 1
  /\ UNCHANGED <<options, oEML, pc, exception, inputRead, decoders, loadList, oDecoders, dIdx, matched>>
  /\ UNCHANGED cutVars

\* The walk is over: EMLDump returns.
WalkEnd ==
  /\ pc \in {"List", "Scan", "Select"}
  /\ counter > Len(oEML)
  /\ pc' = "done"
  /\ UNCHANGED <<options, oEML, exception, inputRead, decoders, loadList, counter,
                 oDecoders, dIdx, matched, stdout>>
  /\ UNCHANGED cutVars

\* -------------------------------------------------------------- the scan
\* The place in decoders of the first class whose constructor raises for
\* data, 0 when none does.
FirstRaising(data) ==
  IF \E j \in 1..Len(decoders) : ConstructorRaises(decoders[j], data)
  THEN Min({j \in 1..Len(decoders) : ConstructorRaises(decoders[j], data)})
  ELSE 0

\* oDecoders once the first upTo classes are instantiated after cIdentity.
DecoderSetMisordered(data, upTo) ==
  [j \in 1..upTo |-> Instance(decoders[j], data)] \o <<Instance(IdentityClass, data)>>

DecoderSet(data, upTo) ==
  <<Instance(IdentityClass, data)>> \o [j \in 1..upTo |-> Instance(decoders[j], data)]

\* The except clause of the instantiation with return left out: the scan
\* goes on with the instances made so far.
AfterInstantiationErrorSoft(verbose) == IF verbose THEN "raised" ELSE "Decode"

\* Where the except clause of the instantiation leaves the run: raise e, or
\* return.
AfterInstantiationError(verbose) == IF verbose THEN "raised" ELSE "done"

\* The part's payload is fetched and its decoders are instantiated.
ScanPart ==
  /\ pc = "Scan"
  /\ counter <= Len(oEML)
  /\ IF oEML[counter].isMultipart
     THEN /\ counter' = counter + 1
          /\ UNCHANGED <<pc, exception, oDecoders, dIdx, stdout>>
     ELSE LET data == oEML[counter].payload
              bad == FirstRaising(data)
          IN IF bad # 0
             THEN /\ oDecoders' = DecoderSet(data, bad - 1)
                  /\ stdout' = Append(stdout, Line("Error instantiating decoder", counter, decoders[bad]))
                  /\ pc' = AfterInstantiationError(options.verbose)
                  /\ exception' = IF pc' = "raised" THEN "cDecoder" ELSE exception
                  /\ dIdx' = 1
                  /\ counter' = counter
             ELSE /\ oDecoders' = DecoderSet(data, Len(decoders))
                  /\ dIdx' = 1
                  /\ pc' = "Decode"
                  /\ UNCHANGED <<counter, exception, stdout>>
  /\ UNCHANGED <<options, oEML, inputRead, decoders, loadList, matched>>
  /\ UNCHANGED cutVars

RECURSIVE HitLines(_, _, _)
\* The lines printed for the results of one rules.match call.
HitLines(index, results, decoderName) ==
  IF results = <<>> THEN <<>>
  ELSE <<HitLine(index, Head(results), decoderName)>> \o HitLines(index, Tail(results), decoderName)

\* One turn of "while oDecoder.Available()": Decode, match, print the hits.
DecodeAndMatch ==
  /\ pc = "Decode"
  /\ dIdx <= Len(oDecoders)
  /\ Available(oDecoders[dIdx])
  /\ oDecoders[dIdx].n < MaxCalls
  /\ LET buffer == Decode(oDecoders[dIdx])
         after == [oDecoders[dIdx] EXCEPT !.n = @ + 1]
     IN /\ oDecoders' = [oDecoders EXCEPT ![dIdx] = after]
        /\ matched' = Append(matched, [index |-> counter, class |-> after.class,
                                       place |-> dIdx, name |-> Name(after), buffer |-> buffer])
        /\ stdout' = stdout \o HitLines(counter, RulesMatch(buffer), Name(after))
  /\ UNCHANGED <<options, oEML, pc, exception, inputRead, decoders, loadList, counter, dIdx>>
  /\ UNCHANGED cutVars

\* The for loop over oDecoders without the while loop's condition: the next
\* instance is taken up whether or not this one is still available.
NextDecoderSkipping ==
  /\ pc = "Decode"
  /\ dIdx <= Len(oDecoders)
  /\ dIdx' = dIdx + 1
  /\ UNCHANGED <<options, oEML, pc, exception, inputRead, decoders, loadList, counter,
                 oDecoders, matched, stdout>>
  /\ UNCHANGED cutVars

\* The instance is not available any more: the next one is driven.
NextDecoder ==
  /\ pc = "Decode"
  /\ dIdx <= Len(oDecoders)
  /\ ~Available(oDecoders[dIdx])
  /\ dIdx' = dIdx + 1
  /\ UNCHANGED <<options, oEML, pc, exception, inputRead, decoders, loadList, counter,
                 oDecoders, matched, stdout>>
  /\ UNCHANGED cutVars

\* Every instance of the part is exhausted: the walk goes on.
NextPart ==
  /\ pc = "Decode"
  /\ dIdx > Len(oDecoders)
  /\ counter' = counter + 1
  /\ pc' = "Scan"
  /\ UNCHANGED <<options, oEML, exception, inputRead, decoders, loadList, oDecoders,
                 dIdx, matched, stdout>>
  /\ UNCHANGED cutVars

\* ---------------------------------------------------------- the selection
\* The selection loop with its break left out: after the dump or the warning
\* the walk goes on to the next part.
SelectPartNoBreak ==
  /\ pc = "Select"
  /\ counter <= Len(oEML)
  /\ IF IsNumeric(options.select) /\ ~IntParses(options.select)
     THEN /\ pc' = "raised"
          /\ exception' = "ValueError"
          /\ UNCHANGED <<counter, stdout, stream, cutOut, cutpc>>
     ELSE IF \/ IsNumeric(options.select) /\ counter = IntDec(Strip(options.select))
             \/ ~IsNumeric(options.select) /\ oEML[counter].contentType = options.select
     THEN IF ~oEML[counter].isMultipart
          THEN /\ stream' = oEML[counter].payload
               /\ cutOut' = CutData(oEML[counter].payload, cutArgument)
               /\ cutpc' = "cut"
               /\ IF cutOut'.raised
                  THEN pc' = "raised" /\ exception' = "ParseCutTerm" /\ stdout' = stdout
                  ELSE /\ pc' = pc
                       /\ exception' = exception
                       /\ stdout' = Append(stdout, DumpOf(counter, cutOut'.data))
               /\ counter' = counter + 1
          ELSE /\ stdout' = Append(stdout, Line("Warning: you selected a multipart stream", counter, ""))
               /\ counter' = counter + 1
               /\ UNCHANGED <<pc, exception, stream, cutOut, cutpc>>
     ELSE /\ counter' = counter + 1
          /\ UNCHANGED <<pc, exception, stdout, stream, cutOut, cutpc>>
  /\ UNCHANGED <<options, oEML, inputRead, decoders, loadList, oDecoders, dIdx, matched>>
  /\ UNCHANGED <<cutTerms, cutArgument, parsed>>

\* One turn of the selection loop: the condition, and the dump or the
\* warning when it holds.
SelectPart ==
  /\ pc = "Select"
  /\ counter <= Len(oEML)
  /\ IF IsNumeric(options.select) /\ ~IntParses(options.select)
     THEN /\ pc' = "raised"
          /\ exception' = "ValueError"
          /\ UNCHANGED <<counter, stdout, stream, cutOut, cutpc>>
     ELSE IF \/ IsNumeric(options.select) /\ counter = IntDec(Strip(options.select))
             \/ ~IsNumeric(options.select) /\ oEML[counter].contentType = options.select
     THEN IF ~oEML[counter].isMultipart
          THEN /\ stream' = oEML[counter].payload
               /\ cutOut' = CutData(oEML[counter].payload, cutArgument)
               /\ cutpc' = "cut"
               /\ IF cutOut'.raised
                  THEN pc' = "raised" /\ exception' = "ParseCutTerm" /\ stdout' = stdout
                  ELSE /\ pc' = "done"
                       /\ exception' = exception
                       /\ stdout' = Append(stdout, DumpOf(counter, cutOut'.data))
               /\ counter' = counter
          ELSE /\ stdout' = Append(stdout, Line("Warning: you selected a multipart stream", counter, ""))
               /\ pc' = "done"
               /\ UNCHANGED <<counter, exception, stream, cutOut, cutpc>>
     ELSE /\ counter' = counter + 1
          /\ UNCHANGED <<pc, exception, stdout, stream, cutOut, cutpc>>
  /\ UNCHANGED <<options, oEML, inputRead, decoders, loadList, oDecoders, dIdx, matched>>
  /\ UNCHANGED <<cutTerms, cutArgument, parsed>>

Next ==
  \/ MainMan
  \/ MainCheck
  \/ ReadInput
  \/ LoadDecodersStart
  \/ LoadDecoder(LoadDecodersVerbose)
  \/ LoadDecodersEnd
  \/ ChooseMode
  \/ ListPart
  \/ ScanPart
  \/ DecodeAndMatch
  \/ NextDecoder
  \/ NextPart
  \/ SelectPart
  \/ WalkEnd

Spec == Init /\ [][Next]_vars

\* ------------------------------------------------------- the scan, alone
\* The runs emldump -y rules [-v] [-D specifiers] file: no -m, no -s, no -c.
InitScan ==
  /\ options \in [man : {FALSE}, select : {<<>>}, yara : {"rules"}, verbose : BOOLEAN,
                  decoders : SeqsUpTo(ScanPluginNames, MaxPlugins), nargs : {1}]
  /\ cutArgument = <<>>
  /\ oEML \in Messages
  /\ cutTerms = [left |-> RawTerm, right |-> RawTerm]
  /\ stream = <<>>
  /\ parsed = Invalid
  /\ cutOut = [raised |-> FALSE, data |-> <<>>]
  /\ cutpc = "start"
  /\ pc = "Main"
  /\ exception = ""
  /\ inputRead = FALSE
  /\ decoders = <<>>
  /\ loadList = <<>>
  /\ counter = 1
  /\ oDecoders = <<>>
  /\ dIdx = 1
  /\ matched = <<>>
  /\ stdout = <<>>

\* The steps of a scan run.
NextScan ==
  \/ MainCheck
  \/ ReadInput
  \/ LoadDecodersStart
  \/ LoadDecoder(LoadDecodersVerbose)
  \/ LoadDecodersEnd
  \/ ChooseMode
  \/ ScanPart
  \/ DecodeAndMatch
  \/ NextDecoder
  \/ NextPart
  \/ WalkEnd

\* The program is one thread that runs each statement after the one before
\* it: a step that can be taken is taken.
SpecScan == InitScan /\ [][NextScan]_vars /\ WF_vars(NextScan)

\* ------------------------------------------------ what the claims speak of
\* needle occurs in buffer
Occurs(needle, buffer) ==
  \E i \in 1..(Len(buffer) - Len(needle) + 1) : SubSeq(buffer, i, i + Len(needle) - 1) = needle

\* The 0-based offset of the first occurrence of needle, counted from byte 0.
FirstOffset(needle, buffer) ==
  (CHOOSE i \in 1..(Len(buffer) - Len(needle) + 1) :
     /\ SubSeq(buffer, i, i + Len(needle) - 1) = needle
     /\ \A j \in 1..(i - 1) : SubSeq(buffer, j, j + Len(needle) - 1) # needle) - 1

\* B[lo:hi] for lo, hi >= 0: the bytes at the offsets lo <= k < min(hi, N).
SliceOf(buffer, lo, hi) ==
  LET top == IF hi < Len(buffer) THEN hi ELSE Len(buffer)
  IN [i \in 1..(IF top > lo THEN top - lo ELSE 0) |-> buffer[lo + i]]

\* The CutExpression the two terms of a "term:term" text stand for.
TermType(t) ==
  CASE t.form = "nothing" -> CUTTERM_NOTHING
    [] t.form \in {"dec", "hex"} -> CUTTERM_POSITION
    [] t.form \in {"declen", "hexlen"} -> CUTTERM_LENGTH
    [] t.form \in {"quoted", "hexneedle"} -> CUTTERM_FIND

ExpressionOf(left, right) ==
  CutExpression(TermType(left), left.num, left.bytes, TermType(right), right.num, right.bytes)

FiveForms == {"nothing", "dec", "hex", "quoted", "hexneedle"}

\* ParseCutArgument returned a CutExpression, not the Invalid marker.
ParsedValid == ~parsed.raised /\ parsed.typeLeft # None

\* C1: ParseCutArgument is total: for every text it returns a CutExpression
\* or the Invalid marker and never raises; a bracketed hexadecimal needle with
\* an odd number of digits in either term yields Invalid.
C1_ParseTotal ==
  cutpc # "start" =>
    /\ ~parsed.raised
    /\ (cutArgument \in {<<"[", "d", "0", "c", "]", ":">>, <<"0", ":", "[", "a", "b", "c", "]">>}
          => parsed = Invalid)

\* C2: for every left and right term of the five term forms, Parse("L:R")
\* returns the CutExpression (term(L), term(R)), not Invalid.
C2_TermsParse ==
  (/\ cutpc # "start"
   /\ cutTerms.left.form \in FiveForms
   /\ cutTerms.right.form \in FiveForms)
    => parsed = ExpressionOf(cutTerms.left, cutTerms.right)

\* C8: for a valid expression, a left needle that does not occur in the
\* buffer gives the empty buffer whatever the right term is, and a right
\* needle that does not occur gives the empty buffer whatever the left term is.
C8_AbsentNeedleEmpty ==
  (/\ cutpc = "cut"
   /\ ParsedValid
   /\ \/ parsed.typeLeft = CUTTERM_FIND /\ ~Occurs(parsed.bytesLeft, stream)
      \/ parsed.typeRight = CUTTERM_FIND /\ ~Occurs(parsed.bytesRight, stream))
    => cutOut = [raised |-> FALSE, data |-> <<>>]

\* C8 witness: a left needle that is absent from a buffer that holds bytes,
\* with a right term that would otherwise reach to the end of the buffer.
C8_Witness ==
  /\ cutpc = "cut"
  /\ ParsedValid
  /\ parsed.typeLeft = CUTTERM_FIND
  /\ ~Occurs(parsed.bytesLeft, stream)
  /\ parsed.typeRight = CUTTERM_NOTHING
  /\ Len(stream) = MaxLen
  /\ cutOut.data = <<>>

\* The left bound of a valid expression whose left needle, if any, occurs.
LeftBound ==
  IF parsed.typeLeft = CUTTERM_NOTHING THEN 0
  ELSE IF parsed.typeLeft = CUTTERM_POSITION THEN parsed.numLeft
  ELSE FirstOffset(parsed.bytesLeft, stream)

\* The end bound the claim gives a right needle that occurs.
RightNeedleEnd == FirstOffset(parsed.bytesRight, stream) + Len(parsed.bytesRight)

RightNeedleCase ==
  /\ cutpc = "cut"
  /\ ParsedValid
  /\ parsed.typeRight = CUTTERM_FIND
  /\ Occurs(parsed.bytesRight, stream)
  /\ parsed.typeLeft = CUTTERM_FIND => Occurs(parsed.bytesLeft, stream)

\* C9: a right needle that occurs ends the cut at (offset of its first
\* occurrence counted from byte 0) + len(needle), whatever the left bound is;
\* when that end is at or before the left bound the result is empty.
C9_RightNeedleFromZero ==
  RightNeedleCase =>
    /\ ~cutOut.raised
    /\ cutOut.data = SliceOf(stream, LeftBound, RightNeedleEnd)
    /\ RightNeedleEnd <= LeftBound => cutOut.data = <<>>

\* C9 witness: the right needle first occurs before the left bound and occurs
\* again after it, and the cut is empty.
C9_Witness ==
  /\ RightNeedleCase
  /\ RightNeedleEnd <= LeftBound
  /\ LeftBound < Len(stream)
  /\ Occurs(parsed.bytesRight, Drop(stream, LeftBound))
  /\ cutOut.data = <<>>

PositionalCase ==
  /\ cutpc = "cut"
  /\ cutTerms.left.form \in {"nothing", "dec", "hex"}
  /\ cutTerms.right.form \in {"nothing", "dec", "hex", "declen", "hexlen"}

\* lo and hi as the claim resolves the terms the text was written from.
ClaimLo == IF cutTerms.left.form = "nothing" THEN 0 ELSE cutTerms.left.num

ClaimHi ==
  CASE cutTerms.right.form = "nothing" -> Len(stream)
    [] cutTerms.right.form \in {"dec", "hex"} -> cutTerms.right.num + 1
    [] cutTerms.right.form \in {"declen", "hexlen"} -> ClaimLo + cutTerms.right.num

\* C10: with terms that are nothing, positions or a length, CutData returns
\* B[lo:hi], lo = 0 or p, hi = N, p + 1 or lo + L, truncated at N.
C10_PositionalSlice ==
  PositionalCase =>
    /\ ParsedValid
    /\ cutOut = [raised |-> FALSE, data |-> SliceOf(stream, ClaimLo, ClaimHi)]

\* C10 witness: a position inside the buffer and a length that runs past its
\* end, cut to the bytes that are there.
C10_Witness ==
  /\ PositionalCase
  /\ cutTerms.left.form = "hex"
  /\ cutTerms.right.form = "declen"
  /\ ClaimLo > 0
  /\ ClaimLo < Len(stream)
  /\ ClaimHi > Len(stream)
  /\ Len(cutOut.data) = Len(stream) - ClaimLo

\* C10 witness of the inclusive end: "p:q" holds the byte at offset q.
C10_WitnessInclusive ==
  /\ PositionalCase
  /\ cutTerms.right.form = "dec"
  /\ cutTerms.right.num < Len(stream)
  /\ ClaimLo <= cutTerms.right.num
  /\ cutOut.data # <<>>
  /\ cutOut.data[Len(cutOut.data)] = stream[cutTerms.right.num + 1]

\* ------------------------------------------- what the run's claims speak of
Lines(kind) == {k \in 1..Len(stdout) : stdout[k].kind = kind}

\* The text of options.cut is no cut expression the parser accepts.
CutTextInvalid ==
  LET c == ParseCutArgument(cutArgument) IN c.raised \/ c.typeLeft = None

\* C3: without -v a plugin that fails to load is reported and skipped: the
\* run is not ended by it, and once loading is over every specifier that
\* does load has registered its decoder, in order.
C3_LoadFailureNonFatal ==
  (~options.verbose /\ Lines("Error loading decoder") # {}) =>
    /\ exception # "LoadDecoders"
    /\ pc # "LoadLoop" => decoders = SelectSeq(Flatten(options.decoders), PluginLoads)

\* The token is written in decimal digits only.
AllDecimal(str) == str # <<>> /\ \A i \in 1..Len(str) : str[i] \in DecDigits

\* C4: a selection token that is not all decimal digits, "3x/y" for one, is
\* compared with the content type of each part, without error.
C4_NonDecimalTokenIsContentType ==
  (options.select # <<>> /\ ~AllDecimal(options.select)) =>
    /\ exception # "ValueError"
    /\ \A k \in Lines("dump") \cup Lines("Warning: you selected a multipart stream") :
         oEML[stdout[k].index].contentType = options.select

\* C5: when the text of the cut expression is invalid the run prints one
\* diagnostic and ends before the input is read and before any part is
\* listed, scanned or selected; CutData is never reached with it.
C5_InvalidCutAborts ==
  (~options.man /\ CutTextInvalid) =>
    /\ ~inputRead
    /\ cutpc # "cut"
    /\ matched = <<>>
    /\ Lines("part") \cup Lines("hit") \cup Lines("dump") = {}
    /\ pc # "Main" =>
         /\ pc = "done"
         /\ stdout = <<Line("Error: the expression of the cut option (-c) is invalid", 0, "")>>

\* A decoder that is loaded cannot be constructed over the payload of part j.
InstantiationFails(j) ==
  /\ ~oEML[j].isMultipart
  /\ \E d \in 1..Len(decoders) : ConstructorRaises(decoders[d], oEML[j].payload)

RECURSIVE Enumeration(_)
\* The labelled buffers an instance yields until it is unavailable.
Enumeration(oDecoder) ==
  IF ~Available(oDecoder) THEN <<>>
  ELSE LET after == [oDecoder EXCEPT !.n = @ + 1]
       IN <<[class |-> after.class, name |-> Name(after), buffer |-> Decode(oDecoder)]>>
            \o Enumeration(after)

RECURSIVE DecoderOutputs(_, _)
\* The outputs of the loaded decoders from place j on, over the payload of
\* part i, in registration order.
DecoderOutputs(i, j) ==
  IF j > Len(decoders) THEN <<>>
  ELSE LET outs == Enumeration(Instance(decoders[j], oEML[i].payload))
       IN [k \in 1..Len(outs) |->
             [index |-> i, class |-> outs[k].class, place |-> j + 1,
              name |-> outs[k].name, buffer |-> outs[k].buffer]]
            \o DecoderOutputs(i, j + 1)

RECURSIVE Submissions(_)
\* What the scan of the first n parts hands to the pattern engine.
Submissions(n) ==
  IF n = 0 THEN <<>>
  ELSE Submissions(n - 1) \o
       (IF oEML[n].isMultipart THEN <<>>
        ELSE <<[index |-> n, class |-> IdentityClass, place |-> 1, name |-> "",
                buffer |-> oEML[n].payload]>> \o DecoderOutputs(n, 1))

IsPrefix(s, t) == Len(s) <= Len(t) /\ SubSeq(t, 1, Len(s)) = s

\* C6: when a loaded decoder cannot be constructed over the payload of a
\* part, no buffer of that part or of a later part is handed to the pattern
\* engine and no hit is printed for them, with and without -v; the run ends
\* there, and what was handed in and printed for the earlier parts stands.
C6_InstantiationFailStop ==
  /\ \A k \in 1..Len(matched) : \A j \in 1..matched[k].index : ~InstantiationFails(j)
  /\ \A k \in Lines("hit") : \A j \in 1..stdout[k].index : ~InstantiationFails(j)
  /\ \A k \in Lines("Error instantiating decoder") :
       /\ k = Len(stdout)
       /\ InstantiationFails(stdout[k].index)
       /\ pc = (IF options.verbose THEN "raised" ELSE "done")
       /\ matched = Submissions(stdout[k].index - 1)

\* C6 witness: the third part cannot be instantiated, without -v, after a
\* hit of the second part was printed.
C6_Witness ==
  /\ ~options.verbose
  /\ pc = "done"
  /\ \E k \in Lines("Error instantiating decoder") :
       /\ stdout[k].index = 3
       /\ \E h \in Lines("hit") : stdout[h].index = 2
       /\ matched # <<>>

\* C7: the buffers handed to the pattern engine come by ascending part
\* index; for each part with payload first the one identity output (the
\* payload itself, empty label), then the outputs of each loaded decoder in
\* registration order, each decoder enumerated to its end before the next.
C7_SubmissionOrder ==
  /\ IsPrefix(matched, Submissions(Len(oEML)))
  /\ \A k \in 1..Len(matched) :
       (k = 1 \/ matched[k - 1].index # matched[k].index) =>
         /\ matched[k].class = IdentityClass
         /\ matched[k].name = ""
         /\ matched[k].buffer = oEML[matched[k].index].payload
  /\ \A k \in 2..Len(matched) :
       \/ matched[k - 1].index < matched[k].index
       \/ /\ matched[k - 1].index = matched[k].index
          /\ matched[k - 1].place <= matched[k].place
          /\ matched[k].class # IdentityClass
  /\ (pc = "done" /\ options.select = <<>> /\ options.yara = "rules" /\ counter > Len(oEML))
       => matched = Submissions(Len(oEML))

\* C7 witness: a scan that ended with two decoders loaded and two parts with
\* payload, each decoder output handed in.
C7_Witness ==
  /\ pc = "done"
  /\ counter > Len(oEML)
  /\ Len(decoders) = 2
  /\ decoders[1] # decoders[2]
  /\ Cardinality({i \in 1..Len(oEML) : ~oEML[i].isMultipart}) >= 2
  /\ \E k \in 1..Len(matched) : matched[k].place = 3 /\ matched[k].index = Len(oEML)
  /\ \E k \in 1..Len(matched) : matched[k].place = 2 /\ matched[k].name = "ADD 1 byte key 0x.."

\* C7 witness with no decoder loaded: the identity output alone, per part.
C7_WitnessNoDecoders ==
  /\ pc = "done"
  /\ counter > Len(oEML)
  /\ decoders = <<>>
  /\ Len(matched) >= 2

\* ----------------------------------------- what the selection claim speaks of
\* Part i matches the selection token: by its index for a token in decimal
\* digits, by its content type for any other.
TokenMatches(i) ==
  IF AllDecimal(options.select)
  THEN i = IntDec(options.select)
  ELSE oEML[i].contentType = options.select

\* The index of the first part that matches the token, 0 when none does.
FirstMatch ==
  IF \E i \in 1..Len(oEML) : TokenMatches(i)
  THEN CHOOSE i \in 1..Len(oEML) : TokenMatches(i) /\ \A j \in 1..(i - 1) : ~TokenMatches(j)
  ELSE 0

Warnings == Lines("Warning: you selected a multipart stream")

\* The selection loop was entered and EMLDump returned.
SelectionOver ==
  pc = "done" /\ inputRead /\ options.yara # "no module"

\* C11: with a selection token the walk stops at the first part that
\* matches: at most one part is dumped in a run, and it is that part; when
\* that part is a multipart only the warning is printed and nothing is
\* dumped; when no part matches nothing is printed; no buffer is handed to
\* the pattern engine and no hit is printed.
C11_SelectsFirstMatchOnly ==
  options.select # <<>> =>
    /\ matched = <<>>
    /\ Lines("hit") \cup Lines("part") = {}
    /\ Cardinality(Lines("dump") \cup Warnings) <= 1
    /\ \A k \in Lines("dump") :
         /\ stdout[k].index = FirstMatch
         /\ ~oEML[FirstMatch].isMultipart
         /\ stdout[k].data = CutData(oEML[FirstMatch].payload, cutArgument).data
    /\ \A k \in Warnings :
         /\ stdout[k].index = FirstMatch
         /\ oEML[FirstMatch].isMultipart
    /\ SelectionOver =>
         IF FirstMatch = 0 THEN stdout = <<>>
         ELSE IF oEML[FirstMatch].isMultipart
         THEN stdout = <<Line("Warning: you selected a multipart stream", FirstMatch, "")>>
         ELSE Lines("dump") = {1} /\ Len(stdout) = 1

\* C11 witness: a run with -y and -s text/plain over a message with two
\* text/plain parts ended with the dump of the first of them alone.
C11_Witness ==
  /\ options.select = TextPlain
  /\ options.yara = "rules"
  /\ pc = "done"
  /\ Cardinality({i \in 1..Len(oEML) : oEML[i].contentType = TextPlain}) >= 2
  /\ FirstMatch = 2
  /\ Len(stdout) = 1
  /\ stdout[1].kind = "dump"
  /\ stdout[1].index = 2

\* C11 witness of the multipart case: -s 1 on a multipart message, the
\* warning alone.
C11_WitnessMultipart ==
  /\ options.select = <<"1">>
  /\ pc = "done"
  /\ Len(oEML) >= 2
  /\ Warnings = {1}
  /\ Lines("dump") = {}

\* ------------------------------------------- what the scan's end speaks of
\* The parts of the message that have a payload.
PayloadParts == {i \in 1..Len(oEML) : ~oEML[i].isMultipart}

\* The classes the -D option names.
Requested == Flatten(options.decoders)

\* No constructor raises over any payload, and no instance is made of a
\* class whose Available() stays true.
TerminatingRun ==
  /\ \A i \in PayloadParts : \A d \in 1..Len(Requested) :
       ~ConstructorRaises(Requested[d], oEML[i].payload)
  /\ ~(PayloadParts # {} /\ \E d \in 1..Len(Requested) : Requested[d] = "decoder_loop")

\* The while loop is at an instance whose Available() stays true.
DrivingEndless ==
  /\ pc = "Decode"
  /\ dIdx <= Len(oDecoders)
  /\ oDecoders[dIdx].class = "decoder_loop"

\* C12: a run of the scan in which every instance becomes unavailable after
\* finitely many Decode() calls and no constructor raises comes to its end,
\* and at the end every instance of every part with a payload was driven
\* until it was unavailable: what was handed to the pattern engine is the
\* whole enumeration, no part and no decoder left out.  Once the loop is at
\* an instance that stays available, the run stays at that instance of that
\* part and does not end.
C12_ScanTerminatesExhaustive ==
  /\ [](TerminatingRun => <>(pc = "done"))
  /\ []((TerminatingRun /\ pc = "done") =>
          /\ exception = ""
          /\ counter = Len(oEML) + 1
          /\ matched = Submissions(Len(oEML))
          /\ \A j \in 1..Len(oDecoders) : ~Available(oDecoders[j]))
  /\ []((TerminatingRun /\ pc = "Decode" /\ dIdx <= Len(oDecoders)
            /\ Available(oDecoders[dIdx])) => oDecoders[dIdx].n < MaxCalls)
  /\ [][DrivingEndless => (DrivingEndless' /\ dIdx' = dIdx /\ counter' = counter)]_vars
  /\ [](DrivingEndless => [](pc # "done" /\ pc # "raised"))

\* C12 witness: a scan with decoder_add1 loaded, over a message with two
\* payload parts, came to its end with every enumeration handed in.
C12_Witness ==
  /\ pc = "done"
  /\ options.yara = "rules" /\ options.select = <<>>
  /\ TerminatingRun
  /\ \E d \in 1..Len(decoders) : decoders[d] = "decoder_add1"
  /\ Cardinality(PayloadParts) >= 2
  /\ matched = Submissions(Len(oEML))
  /\ Len(matched) = Cardinality(PayloadParts) * (1 + MaxKeys * Len(decoders))

\* C12 witness of the endless case: the loop has made every call the model
\* follows on a decoder_loop instance of the first payload part, and a
\* later part and a later decoder are still waiting.
C12_WitnessEndless ==
  /\ DrivingEndless
  /\ oDecoders[dIdx].n = MaxCalls
  /\ dIdx < Len(oDecoders)
  /\ counter < Len(oEML)

====
